---------------------------- MODULE Spec2Model ----------------------------
(***************************************************************************)
(* A model of custom_components/tank_model/__init__.py: the stratified     *)
(* hot water tank (class Tank) and the handlers of HotWaterTankEntity and   *)
(* async_setup that replace its state.                                      *)
(*                                                                          *)
(* Numbers.  The program computes in Python floats.  The model computes in  *)
(* fixed point: a temperature is an integer number of milli-degrees (so the *)
(* program's 0.001 is one unit), a volume an integer number of millilitres, *)
(* a power an integer number of milliwatts, a time a number of seconds.     *)
(* Every product is evaluated exactly and every division rounds to the      *)
(* nearest unit, half away from zero (the float operations round to         *)
(* nearest too, at a far finer grain); // and % are floor division and its  *)
(* remainder, int() truncates.  Layer indices are 0-based as in the source; *)
(* At(s, i) reads the TLA+ sequence s at the source's index i.              *)
(***************************************************************************)
EXTENDS Integers, Sequences, FiniteSets, TLC

VARIABLES
    state,          \* Tank.state: the layer temperatures, bottom first
    heater_layers,  \* Tank.heater_layers: layer indices, in configured order
    heating_power,  \* Tank.heating_power, in watts
    heating,        \* Tank.heating: the layer that received heat, or None
    phase,          \* "new" until async_added_to_hass has run, then "running"
    last,           \* the last call made on the Tank: what, with what, on what
    left            \* calls the run may still make (the bound of the model)

vars == <<state, heater_layers, heating_power, heating, phase, last, left>>

-----------------------------------------------------------------------------
(* Configuration: the defaults of the source, in the model's units.         *)

None == -1                  \* Python's None for an optional layer index
diameter == 55              \* centimetres
height == 130               \* centimetres
volume == 180               \* litres
thermostat == 60000
u_value_tenths == 5         \* u_value = 0.5
inlet_temperature == 15000
ambient_temperature == 20000
PiNum == 355                \* math.pi as the rational 355/113
PiDen == 113
epsilon == 1                \* 0.001 degrees
clamp_margin == 5000        \* 5.0 degrees

-----------------------------------------------------------------------------
(* Bounds of the model.                                                     *)

MaxLayers == 3      \* longest layer vector
MaxSteps == 2       \* handler invocations in a run of Spec
MaxTicks == 3       \* updates in a run of SpecTick
MaxDraws == 2       \* calls in a run of SpecDraw

-----------------------------------------------------------------------------
(* Arithmetic.                                                              *)

Abs(x) == IF x < 0 THEN -x ELSE x

Min(a, b) == IF a < b THEN a ELSE b

At(s, i) == s[i + 1]

\* <<q, r>> with a * n = q * d + r and 0 <= r < d, for a, n >= 0 and d > 0:
\* directly when the product fits 32 bits, by doubling otherwise, so that no
\* intermediate value leaves the 32-bit range.
RECURSIVE MulDivQR(_, _, _)
MulDivQR(a, n, d) ==
    IF n = 0 \/ a <= 2147483647 \div n THEN <<(a * n) \div d, (a * n) % d>>
    ELSE LET h == MulDivQR(a, n \div 2, d)
             t == 2 * h[2] + (n % 2) * a
         IN  <<2 * h[1] + t \div d, t % d>>

\* a * n / d rounded to the nearest integer, half away from zero (d # 0).
RoundMulDiv(a, n, d) ==
    LET neg == ((a < 0) # (n < 0)) # (d < 0)
        qr  == MulDivQR(Abs(a), Abs(n), Abs(d))
        q   == IF 2 * qr[2] >= Abs(d) THEN qr[1] + 1 ELSE qr[1]
    IN  IF neg THEN -q ELSE q

\* (x * wx + y * wy) / (wx + wy) rounded to nearest, for x, y, wx, wy >= 0.
WeightedMean(x, wx, y, wy) ==
    LET a == MulDivQR(x, wx, wx + wy)
        b == MulDivQR(y, wy, wx + wy)
        r == a[2] + b[2]
        w == wx + wy
    IN  a[1] + b[1] + r \div w + (IF 2 * (r % w) >= w THEN 1 ELSE 0)

RECURSIVE Sum(_)
Sum(s) == IF s = <<>> THEN 0 ELSE Head(s) + Sum(Tail(s))

\* [x] * n
Repeat(x, n) == [k \in 1..n |-> x]

\* self.volume / n_layers, in millilitres
slice_volume(n) == RoundMulDiv(volume * 1000, 1, n)


-----------------------------------------------------------------------------
(* Tank.update                                                              *)

\* a list read s[i] raises IndexError for i >= len(s).  A heater index is
\* never negative: it is int() of a product of non-negative numbers.
InRange(s, i) == 0 <= i /\ i < Len(s)

\* `heating_layer or i`: None and 0 are both false
OrElse(heating_layer, i) ==
    IF heating_layer = None \/ heating_layer = 0 THEN i ELSE heating_layer

Max(a, b) == IF a > b THEN a ELSE b

\* a slip in the choice of the heater: the last eligible layer wins
LastEligible(heating_layer, i) == i

\* max(heating_layer or i, i)
Highest(heating_layer, i) == Max(OrElse(heating_layer, i), i)

\* The loop over self.heater_layers from its k-th element on, heating_layer
\* being the value so far: the layer chosen, or an IndexError.
RECURSIVE SelectHeater(_, _, _, _)
SelectHeater(s, hs, k, heating_layer) ==
    IF k > Len(hs) THEN [layer |-> heating_layer, err |-> "none"]
    ELSE IF ~InRange(s, hs[k]) THEN [layer |-> heating_layer, err |-> "IndexError"]
    ELSE SelectHeater(s, hs, k + 1,
                      IF At(s, hs[k]) < thermostat
                      THEN Highest(heating_layer, hs[k])
                      ELSE heating_layer)

\* a slip: the loss with its sign reversed (ambient minus layer)
loss_reversed(s, i) ==
    LET n == Len(s)
        delta_t == ambient_temperature - At(s, i)
        cap == IF i = 0 \/ i = n - 1 THEN n * diameter * diameter ELSE 0
    IN  RoundMulDiv(delta_t,
                    u_value_tenths * PiNum * (4 * diameter * height + cap),
                    10 * PiDen * 4 * n * 10000)

\* u_value * slice_area * delta_t in milliwatts, slice_area being
\* pi * diameter * layer_height, plus pi * (diameter / 2) ** 2 for the bottom
\* and the top layer: u * pi * (4 d h + n d^2) / (4 n) over 10^4 cm^2 per m^2.
loss(s, i) ==
    LET n == Len(s)
        delta_t == At(s, i) - ambient_temperature
        cap == IF i = 0 \/ i = n - 1 THEN n * diameter * diameter ELSE 0
    IN  RoundMulDiv(delta_t,
                    u_value_tenths * PiNum * (4 * diameter * height + cap),
                    10 * PiDen * 4 * n * 10000)

\* 0.6 * x
SixTenths(x) == RoundMulDiv(x, 6, 10)

\* the conduction of layer i with the layer below and the layer above
conduction(s, i) ==
    (IF i > 0 THEN SixTenths(At(s, i - 1) - At(s, i)) ELSE 0)
    + (IF i < Len(s) - 1 THEN SixTenths(At(s, i + 1) - At(s, i)) ELSE 0)

\* heat_in of layer i, in watts
heat_in(i, heating_layer, power) == IF i = heating_layer THEN power ELSE 0

\* energy * 0.00024 / slice_volume for energy = power * time, the power in
\* milliwatts: power * time * 24 * n / (100000 * volume) milli-degrees
slice_delta_t(power, time, n) ==
    RoundMulDiv(power, time * 24 * n, 100000 * volume)

\* the first loop: every layer's new temperature, from the old vector
EnergyPass(s, heating_layer, power, time) ==
    [k \in 1..Len(s) |->
        s[k] + slice_delta_t(heat_in(k - 1, heating_layer, power) * 1000
                             + conduction(s, k - 1) - loss(s, k - 1),
                             time, Len(s))]

\* 0.4 * x
FourTenths(x) == RoundMulDiv(x, 4, 10)

\* the body of `for i in range(n_layers-1)`, from index i on
RECURSIVE Sweep(_, _)
Sweep(s, i) ==
    IF i >= Len(s) - 1 THEN s
    ELSE IF At(s, i) > epsilon + At(s, i + 1)
         THEN LET d  == At(s, i) - At(s, i + 1)
                  hi == At(s, i) - FourTenths(d)
                  lo == At(s, i + 1) + FourTenths(d)
              IN  Sweep([s EXCEPT ![i + 1] = lo, ![i + 2] = hi], i + 1)
         ELSE Sweep(s, i + 1)

\* `while out_of_order:` around the sweep.  The for loop has no break, so its
\* else clause runs after every sweep and sets out_of_order to False,
\* whatever the sweep assigned to it.
RECURSIVE Convect(_, _)
Convect(s, out_of_order) ==
    IF ~out_of_order THEN s
    ELSE Convect(Sweep(s, 0), FALSE)

\* a slip: the clamp left out
NoClamp(s) == s

\* [min(self.thermostat + 5.0, x) for x in new_state]
Clamp(s) == [k \in 1..Len(s) |-> Min(thermostat + clamp_margin, s[k])]

\* self.heating after the first loop: set when the loop reaches heating_layer
Heating(s, heating_layer, power) ==
    IF heating_layer # None /\ heating_layer >= 0 /\ heating_layer < Len(s)
       /\ power > 0
    THEN heating_layer ELSE None

\* a slip: `time < 0` for `time <= 0`
NegativeTime(time) == time < 0

\* `if time <= 0: return`
NoTime(time) == time <= 0

\* Tank.update(time) on a tank t = [state, heater_layers, heating_power,
\* heating]: the tank afterwards, the exception raised, and each layer's
\* heat_in in watts.
update(t, time) ==
    IF NoTime(time)
    THEN [tank |-> t, err |-> "none", heat |-> Repeat(0, Len(t.state))]
    ELSE LET sel == SelectHeater(t.state, t.heater_layers, 1, None)
         IN  IF sel.err # "none"
             THEN [tank |-> [t EXCEPT !.heating = None], err |-> sel.err,
                   heat |-> Repeat(0, Len(t.state))]
             ELSE [tank |-> [t EXCEPT
                       !.state = Clamp(Convect(
                           EnergyPass(t.state, sel.layer, t.heating_power, time),
                           TRUE)),
                       !.heating = Heating(t.state, sel.layer, t.heating_power)],
                   err |-> "none",
                   heat |-> [k \in 1..Len(t.state) |->
                               heat_in(k - 1, sel.layer, t.heating_power)]]

-----------------------------------------------------------------------------
(* Tank.available_volume and Tank.use_water                                 *)

\* vc = slice_volume * (layer_temp - target) / (target - inlet), for a layer
\* at or above the target and target # inlet
MixCold(n, layer_temp, target_temperature) ==
    RoundMulDiv(slice_volume(n), layer_temp - target_temperature,
                target_temperature - inlet_temperature)

\* the division by target - inlet is evaluated for a layer at or above the
\* target only
DividesByZero(layer_temp, target_temperature) ==
    layer_temp >= target_temperature /\ target_temperature = inlet_temperature

\* the loop of available_volume from the k-th layer on
RECURSIVE AvailableFrom(_, _, _)
AvailableFrom(s, k, target_temperature) ==
    IF k > Len(s) THEN 0
    ELSE (IF s[k] >= target_temperature
          THEN MixCold(Len(s), s[k], target_temperature) + slice_volume(Len(s))
          ELSE 0)
         + AvailableFrom(s, k + 1, target_temperature)

\* Tank.available_volume(target_temperature): the value returned, in
\* millilitres, or the exception raised
available_volume(s, target_temperature) ==
    IF \E k \in 1..Len(s) : DividesByZero(s[k], target_temperature)
    THEN [value |-> 0, err |-> "ZeroDivisionError"]
    ELSE [value |-> AvailableFrom(s, 1, target_temperature), err |-> "none"]

\* vt of a layer: what it yields at the target temperature
Yield(n, layer_temp, target_temperature) ==
    (IF layer_temp >= target_temperature
     THEN MixCold(n, layer_temp, target_temperature) ELSE 0)
    + slice_volume(n)

\* `for i in reversed(range(n_layers))` from index i down, with volume_l
\* still to produce and used_volume taken so far: used_volume at the end of
\* the loop, or the exception raised
RECURSIVE Scan(_, _, _, _, _)
Scan(s, i, volume_l, used_volume, target_temperature) ==
    IF i < 0 THEN [used |-> used_volume, err |-> "none"]
    ELSE IF DividesByZero(At(s, i), target_temperature)
         THEN [used |-> used_volume, err |-> "ZeroDivisionError"]
    ELSE LET vt == Yield(Len(s), At(s, i), target_temperature)
         IN  IF volume_l >= vt
             THEN Scan(s, i - 1, volume_l - vt,
                       used_volume + slice_volume(Len(s)), target_temperature)
             ELSE [used |-> used_volume
                            + RoundMulDiv(slice_volume(Len(s)), volume_l, vt),
                   err |-> "none"]

\* a slip: the bottom slice is never discarded
whole_slices_capped(used_volume, n) ==
    Min(used_volume \div slice_volume(n), n - 1)

\* int(used_volume // slice_volume)
whole_slices(used_volume, n) == used_volume \div slice_volume(n)

\* used_volume % slice_volume
fill(used_volume, n) == used_volume % slice_volume(n)

\* a slip: each slice mixed with the new temperature of the slice below
RECURSIVE BlendCascading(_, _, _, _, _)
BlendCascading(new_state, i, t_below, keep, fl) ==
    IF i >= Len(new_state) THEN new_state
    ELSE LET t_here == WeightedMean(At(new_state, i), keep, t_below, fl)
         IN  BlendCascading([new_state EXCEPT ![i + 1] = t_here], i + 1,
                            t_here, keep, fl)

\* the kept slices, each mixed with what was below it: the loop over
\* range(len(new_state)) from index i on, t_below being the old temperature
\* of the slice below (the inlet's for the bottom one)
RECURSIVE Blend(_, _, _, _, _)
Blend(new_state, i, t_below, keep, fl) ==
    IF i >= Len(new_state) THEN new_state
    ELSE LET t_here == WeightedMean(At(new_state, i), keep, t_below, fl)
         IN  Blend([new_state EXCEPT ![i + 1] = t_here], i + 1,
                   At(new_state, i), keep, fl)

\* a slip: the discarded slices are not replaced at the bottom
RefillKept(s, used_volume) ==
    LET n     == Len(s)
        whole == whole_slices(used_volume, n)
        fl    == fill(used_volume, n)
        kept  == SubSeq(s, 1, n - whole)
    IN  IF fl > 0
        THEN Blend(kept, 0, inlet_temperature, slice_volume(n) - fl, fl)
        ELSE kept

\* the new layer vector for used_volume taken from the top
Refill(s, used_volume) ==
    LET n     == Len(s)
        whole == whole_slices(used_volume, n)
        fl    == fill(used_volume, n)
        kept  == SubSeq(s, 1, n - whole)
        mixed == IF fl > 0
                 THEN Blend(kept, 0, inlet_temperature, slice_volume(n) - fl, fl)
                 ELSE kept
    IN  Repeat(inlet_temperature, whole) \o mixed

\* Tank.use_water(volume_l, target_temperature): the layer vector afterwards,
\* the exception raised, and used_volume
use_water(s, volume_l, target_temperature) ==
    IF volume_l <= 0 THEN [state |-> s, err |-> "none", used |-> 0]
    ELSE LET sc == Scan(s, Len(s) - 1, volume_l, 0, target_temperature)
         IN  IF sc.err # "none" THEN [state |-> s, err |-> sc.err, used |-> 0]
             ELSE [state |-> Refill(s, sc.used), err |-> "none",
                   used |-> sc.used]

-----------------------------------------------------------------------------
(* The inputs the model draws from.                                         *)

\* layer temperatures a caller may supply: below the inlet and the ambient
\* temperature, between the use temperature and the thermostat, above the
\* clamp
TempChoices == {10000, 50000, 70000}

\* the layer vectors of length lo..hi over a set of temperatures
VectorsOver(temps, lo, hi) == UNION {[1..n -> temps] : n \in lo..hi}

\* the vectors the draw specification starts from
Vectors == VectorsOver(TempChoices, 2, MaxLayers)

\* the vectors the tick specification starts from: also a layer just above
\* the ambient temperature
TickVectors == VectorsOver(TempChoices \cup {25000}, 2, MaxLayers)

\* the vectors set_state and a restore supply in the lifecycle
\* specification: every layer at the same temperature
StoredVectors == {[k \in 1..n |-> t] : t \in TempChoices, n \in 1..MaxLayers}

\* configured heater heights, in centimetres: the default [0.1, 0.6], and an
\* upper element listed first
HeaterHeights == {<<10, 60>>, <<100, 10>>}

\* elapsed seconds handed to Tank.update
Times == {-60, 0, 120, 3600}

\* elapsed seconds when a handler other than the timer's calls entity.update()
StartTimes == {0, 3600}

\* power_kw of the set_heater_power service
Powers == {0, 3}

\* volume_l of use_water, in millilitres
Volumes == {-5000, 0, 40000, 150000, 700000}

\* target_temperature: the default use temperature, the inlet temperature,
\* and one below the inlet temperature
Targets == {45000, inlet_temperature, 10000}

-----------------------------------------------------------------------------
(* The state machine.                                                       *)

\* the Tank object
Tank == [state |-> state, heater_layers |-> heater_layers,
         heating_power |-> heating_power, heating |-> heating]

\* the record of a call: op is the Tank method (or the handler, when it
\* calls none), before the Tank as the call found it, heat each layer's
\* heat_in, value what available_volume returned or use_water's used_volume
Call(op, time, volume_l, target, before, err, heat, value) ==
    [op |-> op, time |-> time, volume |-> volume_l, target |-> target,
     before |-> before, err |-> err, heat |-> heat, value |-> value]

\* [int(layers * h / height) for h in heater_heights]
HeaterLayers(layers, heights) ==
    [k \in 1..Len(heights) |-> (layers * heights[k]) \div height]

\* Tank.__init__ as HotWaterTankEntity.__init__ calls it
Construct(layers, heights) ==
    /\ state = Repeat(inlet_temperature, layers)
    /\ heater_layers = HeaterLayers(layers, heights)
    /\ heating_power = 0
    /\ heating = None
    /\ phase = "new"
    /\ left = MaxSteps
    /\ last = Call("construct", 0, 0, 0, <<>>, "none", <<>>, 0)

Init == \E layers \in 2..MaxLayers, heights \in HeaterHeights :
            Construct(layers, heights)

\* self._model.update(dt) on the tank t, and its record
Updated(t, dt) ==
    LET r == update(t, dt)
    IN  /\ state' = r.tank.state
        /\ heating' = r.tank.heating
        /\ heater_layers' = r.tank.heater_layers
        /\ heating_power' = r.tank.heating_power
        /\ last' = Call("update", dt, 0, 0, t, r.err, r.heat, 0)

\* async_added_to_hass with a stored state: the stored temperatures replace
\* the layer vector, then self.update()
Restore(stored, dt) ==
    /\ left > 0
    /\ phase = "new"
    /\ Updated([Tank EXCEPT !.state = stored], dt)
    /\ phase' = "running"
    /\ left' = left - 1

\* async_added_to_hass without a stored state: self.update()
Startup(dt) ==
    /\ left > 0
    /\ phase = "new"
    /\ Updated(Tank, dt)
    /\ phase' = "running"
    /\ left' = left - 1

\* the timer's _update_tank: entity.update()
Tick(dt) ==
    /\ left > 0
    /\ phase = "running"
    /\ Updated(Tank, dt)
    /\ UNCHANGED phase
    /\ left' = left - 1

\* the set_heater_power service: the power is stored in watts, then
\* self.update()
SetHeaterPower(power_kw, dt) ==
    /\ left > 0
    /\ phase = "running"
    /\ Updated([Tank EXCEPT !.heating_power = power_kw * 1000], dt)
    /\ UNCHANGED phase
    /\ left' = left - 1

\* Tank.use_water(volume_l, target_temperature).  The use_water service calls
\* it with the configured use temperature and then entity.update(), which is
\* the action Tick.
UseWater(volume_l, target_temperature) ==
    /\ left > 0
    /\ phase = "running"
    /\ LET r == use_water(state, volume_l, target_temperature)
       IN  /\ state' = r.state
           /\ last' = Call("use_water", 0, volume_l, target_temperature, Tank,
                           r.err, <<>>, r.used)
    /\ UNCHANGED <<heater_layers, heating_power, heating, phase>>
    /\ left' = left - 1

\* Tank.available_volume(target_temperature), as entity.update() queries it
AvailableVolume(target_temperature) ==
    /\ left > 0
    /\ phase = "running"
    /\ LET r == available_volume(state, target_temperature)
       IN  last' = Call("available_volume", 0, 0, target_temperature, Tank,
                        r.err, <<>>, r.value)
    /\ UNCHANGED <<state, heater_layers, heating_power, heating, phase>>
    /\ left' = left - 1

\* int(r * h) for r = l1 / l0
Rescale(h, l0, l1) == (l1 * h) \div l0

\* the set_state service with a non-empty list of temperatures
SetState(temps) ==
    /\ left > 0
    /\ phase = "running"
    /\ temps # <<>>
    /\ state' = temps
    /\ heater_layers' = [k \in 1..Len(heater_layers) |->
                            Rescale(heater_layers[k], Len(state), Len(temps))]
    /\ last' = Call("set_state", 0, 0, 0, Tank, "none", <<>>, 0)
    /\ UNCHANGED <<heating_power, heating, phase>>
    /\ left' = left - 1

Next ==
    \/ \E stored \in StoredVectors, dt \in StartTimes : Restore(stored, dt)
    \/ \E dt \in StartTimes : Startup(dt)
    \/ \E dt \in Times : Tick(dt)
    \/ \E power_kw \in Powers, dt \in StartTimes : SetHeaterPower(power_kw, dt)
    \/ \E volume_l \in Volumes, target \in Targets : UseWater(volume_l, target)
    \/ \E target \in Targets : AvailableVolume(target)
    \/ \E temps \in StoredVectors : SetState(temps)

Spec == Init /\ [][Next]_vars

\* A tank whose layer vector an override has set, ticking: the layer vector
\* is any of TickVectors, the heater layers those of its construction.
InitTick ==
    \E s \in TickVectors, heights \in HeaterHeights, power_kw \in Powers :
        /\ state = s
        /\ heater_layers = HeaterLayers(Len(s), heights)
        /\ heating_power = power_kw * 1000
        /\ heating = None
        /\ phase = "running"
        /\ left = MaxTicks
        /\ last = Call("set_state", 0, 0, 0, <<>>, "none", <<>>, 0)

NextTick == \E dt \in Times : Tick(dt)

SpecTick == InitTick /\ [][NextTick]_vars

\* A tank whose layer vector an override has set, drawn from and queried.
InitDraw ==
    \E s \in Vectors :
        /\ state = s
        /\ heater_layers = HeaterLayers(Len(s), <<10, 60>>)
        /\ heating_power = 0
        /\ heating = None
        /\ phase = "running"
        /\ left = MaxDraws
        /\ last = Call("set_state", 0, 0, 0, <<>>, "none", <<>>, 0)

NextDraw ==
    \/ \E volume_l \in Volumes, target \in Targets : UseWater(volume_l, target)
    \/ \E target \in Targets : AvailableVolume(target)

SpecDraw == InitDraw /\ [][NextDraw]_vars

-----------------------------------------------------------------------------
(* What the claims speak of.                                                *)

\* the last call was Tank.update(time) with time > 0, and it returned
Ticked == last.op = "update" /\ last.time > 0 /\ last.err = "none"

\* the last call was Tank.use_water(volume_l, t) with volume_l > 0, and it
\* returned
Drew == last.op = "use_water" /\ last.volume > 0 /\ last.err = "none"

\* the number of layers at the bottom of s that are at the inlet temperature
RECURSIVE InletLayers(_)
InletLayers(s) ==
    IF s = <<>> \/ Head(s) # inlet_temperature THEN 0
    ELSE 1 + InletLayers(Tail(s))

\* what one layer yields at the target temperature, by the mixing identity:
\* slice_volume * (T - inlet) / (target - inlet) at or above the target, the
\* slice itself below it
LayerYield(n, t, target) ==
    IF t >= target
    THEN RoundMulDiv(slice_volume(n), t - inlet_temperature,
                     target - inlet_temperature)
    ELSE slice_volume(n)

\* the yield of the layers of s from index i (0-based) to the top
RECURSIVE YieldFrom(_, _, _)
YieldFrom(s, i, target) ==
    IF i >= Len(s) THEN 0
    ELSE LayerYield(Len(s), At(s, i), target) + YieldFrom(s, i + 1, target)

\* how many layers, from the top, a draw of volume_l consumes whole
WholeLayers(s, volume_l, target) ==
    Cardinality({i \in 0..(Len(s) - 1) : YieldFrom(s, i, target) <= volume_l})

-----------------------------------------------------------------------------
(* The claims.  Where a claim says "exactly" of a float result, the model   *)
(* allows the rounding of its own arithmetic: one unit per layer.            *)

\* C1: after Tank.update(time) with time > 0 has returned, no adjacent pair
\* of layers is inverted beyond epsilon: state[i] <= state[i+1] + 0.001.
C1_NoInversionSurvives ==
    Ticked => \A i \in 0..(Len(state) - 2) :
                  At(state, i) <= At(state, i + 1) + 1

\* the tank is at or above the target in every layer, and the draw asks for
\* no more than it holds
AllAtOrAbove(s, target) == \A k \in 1..Len(s) : s[k] >= target

Available(s) == available_volume(s, last.target).value

DrawFromHot ==
    /\ Drew
    /\ last.target > inlet_temperature
    /\ AllAtOrAbove(last.before.state, last.target)
    /\ last.volume <= Available(last.before.state)

\* by how much the draw reduced available_volume(target)
Reduction == Available(last.before.state) - Available(state)

\* the lowest slice the draw kept is still at or above the target (or the
\* draw kept none)
BottomStillHot ==
    \/ InletLayers(state) = Len(state)
    \/ state[InletLayers(state) + 1] >= last.target

RefilledAsDiscarded ==
    InletLayers(state)
        = WholeLayers(last.before.state, last.volume, last.target)

\* C2 as stated: a draw of V from a tank with every layer at or above the
\* target reduces available_volume(target) by exactly V, and refills as many
\* bottom layers with inlet water as it discarded whole layers from the top.
C2_DrawReducesByExactlyV ==
    DrawFromHot => /\ Abs(Reduction - last.volume) <= Len(state)
                   /\ RefilledAsDiscarded

\* C2 as amended: such a draw reduces available_volume(target) by at least V,
\* and by exactly V when the lowest kept slice, mixed with inlet water, is
\* still at or above the target; it refills as many bottom layers as it
\* discarded.
C2_DrawReducesByAtLeastV ==
    DrawFromHot => /\ Reduction >= last.volume - Len(state)
                   /\ BottomStillHot
                        => Abs(Reduction - last.volume) <= Len(state)
                   /\ RefilledAsDiscarded

\* a draw that took part of a slice, left the lowest kept slice below the
\* target, and so cost more available volume than it produced
C2_Witness ==
    /\ DrawFromHot
    /\ ~BottomStillHot
    /\ Reduction > last.volume + 1000
    /\ InletLayers(state) > 0

\* the heater layers whose temperature before the tick is below the
\* thermostat
Eligible == {h \in {last.before.heater_layers[k] :
                        k \in 1..Len(last.before.heater_layers)} :
                At(last.before.state, h) < thermostat}

TopEligible == CHOOSE h \in Eligible : \A g \in Eligible : g <= h

\* C3: a tick adds heating_power to exactly one layer, the highest heater
\* layer that was below the thermostat, and to none when there is none;
\* Tank.heating is that layer when heating_power > 0, None otherwise.
C3_HeaterPriority ==
    Ticked =>
        IF Eligible = {}
        THEN /\ \A i \in 0..(Len(state) - 1) : At(last.heat, i) = 0
             /\ heating = None
        ELSE /\ \A i \in 0..(Len(state) - 1) :
                    At(last.heat, i)
                        = IF i = TopEligible THEN heating_power ELSE 0
             /\ heating = IF heating_power > 0 THEN TopEligible ELSE None

\* the heaters are listed upper first, both were below the thermostat, and
\* the upper one was heated
C3_Witness ==
    /\ Ticked
    /\ heating_power > 0
    /\ Cardinality(Eligible) = 2
    /\ last.before.heater_layers[1] > last.before.heater_layers[2]
    /\ heating = last.before.heater_layers[1]
    /\ At(last.heat, heating) = heating_power

\* C4: after a tick every layer is at most thermostat + 5.0.
C4_ClampInvariant ==
    Ticked => \A k \in 1..Len(state) : state[k] <= thermostat + 5000

\* the heater was on, a layer started above the ceiling and ends on it
C4_Witness ==
    /\ Ticked
    /\ heating_power > 0
    /\ \E k \in 1..Len(state) :
          /\ last.before.state[k] > thermostat + 5000
          /\ state[k] = thermostat + 5000

\* the heater is off and the ambient temperature is below every layer
PureLoss ==
    /\ Ticked
    /\ last.before.heating_power = 0
    /\ \A k \in 1..Len(state) : ambient_temperature < last.before.state[k]

\* C5 as stated: in a tick of pure loss no layer's temperature increases.
C5_EveryLayerNonIncreasing ==
    PureLoss => \A k \in 1..Len(state) : state[k] <= last.before.state[k] + 1

\* C5 as amended: in a tick of pure loss the sum of the layer temperatures
\* does not increase.
C5_TotalNonIncreasing ==
    PureLoss => Sum(state) <= Sum(last.before.state) + Len(state)

\* a tick of pure loss on a tank with no inversion, in which conduction
\* warmed a layer while the total fell
C5_Witness ==
    /\ PureLoss
    /\ \A k \in 1..(Len(state) - 1) :
          last.before.state[k] <= last.before.state[k + 1]
    /\ \E k \in 1..Len(state) : state[k] > last.before.state[k] + 100
    /\ Sum(state) < Sum(last.before.state)

\* C6: every heater index is a valid layer index, and no update fails on one.
C6_HeaterIndicesValid ==
    /\ \A k \in 1..Len(heater_layers) :
          0 <= heater_layers[k] /\ heater_layers[k] < Len(state)
    /\ last.err # "IndexError"

\* C7: Tank.update(time) with time <= 0 and Tank.use_water(volume_l, t) with
\* volume_l <= 0 return without error and change nothing of the tank.
C7_NoOpInputs ==
    (\/ last.op = "update" /\ last.time <= 0
     \/ last.op = "use_water" /\ last.volume <= 0)
        => last.err = "none" /\ Tank = last.before

\* an update with a negative time on a tank above the clamp ceiling, which a
\* tick would have changed
C7_Witness ==
    /\ last.op = "update"
    /\ last.time < 0
    /\ \E k \in 1..Len(state) : state[k] > thermostat + 5000

\* C8: with target_temperature = inlet_temperature, available_volume and
\* use_water (of a positive volume) raise an error, and leave the layers as
\* they were.
C8_InletTargetRejected ==
    (/\ last.target = inlet_temperature
     /\ \/ last.op = "available_volume"
        \/ last.op = "use_water" /\ last.volume > 0)
        => last.err # "none" /\ state = last.before.state

\* C9: Tank.update and Tank.use_water (target # inlet) keep the layer count.
C9_LayerCountFixed ==
    (\/ last.op = "update"
     \/ last.op = "use_water" /\ last.target # inlet_temperature)
        => Len(state) = Len(last.before.state)

\* a draw that discarded a whole slice and part of the next
C9_Witness ==
    /\ Drew
    /\ last.target # inlet_temperature
    /\ whole_slices(last.value, Len(state)) > 0
    /\ fill(last.value, Len(state)) > 0
    /\ Len(state) = Len(last.before.state)
    /\ Len(state) > 1

\* the draw asks for at least what all the layers together yield (a yield is
\* defined for a target other than the inlet temperature)
OverDraw ==
    /\ Drew
    /\ last.target # inlet_temperature
    /\ last.volume >= YieldFrom(last.before.state, 0, last.target)

\* the whole tank was used and every layer is inlet water
Emptied ==
    /\ last.value = volume * 1000
    /\ state = Repeat(inlet_temperature, Len(last.before.state))

\* C10 as stated: a draw of at least the sum of the layers' yields uses the
\* whole tank volume and leaves N layers of inlet water.
C10_OverDrawEmpties == OverDraw => Emptied

\* C10 as amended: so it does when the target is above the inlet
\* temperature.
C10_OverDrawEmptiesAboveInlet ==
    OverDraw /\ last.target > inlet_temperature => Emptied

\* an over-draw from a tank that held no inlet water
C10_Witness ==
    /\ OverDraw
    /\ last.target > inlet_temperature
    /\ \A k \in 1..Len(state) : last.before.state[k] > last.target
    /\ Emptied

=============================================================================
